---- MODULE Spec2Model ----
(***************************************************************************)
(* The filtergraph description parser of ffgen (src/src/graph_parser.rs).  *)
(*                                                                         *)
(* A text is a sequence of bytes; a byte is a one-character string.  The   *)
(* scanner's raw pointers ptr and end are modelled by the offset ptr of    *)
(* the cursor from the start of the buffer (0 .. Len(text)); end is        *)
(* Len(text).  Option values are Some(x) == <<x>> and None == <<>>.        *)
(* One call of avfilter_graph_parse2 is a run of the state machine: pc is  *)
(* the position of the call in its code.                                   *)
(***************************************************************************)
EXTENDS Integers, Sequences, FiniteSets, TLC

Some(x) == <<x>>
None == <<>>
IsSome(o) == o # <<>>
Unwrap(o) == o[1]

(***************************************************************************)
(* Bounds of the model: the longest text, in tokens, of each family of     *)
(* input texts, and the number of calls of the parser in one behaviour.    *)
(***************************************************************************)
MaxToks == 5
MaxLabelToks == 6
MaxLexToks == 4
MaxFairToks == 3
MaxTwiceToks == 4
MaxSwsToks == 4
MaxDupToks == 6
MaxOpenToks == 5
MaxScanToks == 3
MaxSkip == 3
MaxCalls == 2

(***************************************************************************)
(* Byte strings used by the code and by the input texts.                   *)
(***************************************************************************)
B_sws_flags == <<"s", "w", "s", "_", "f", "l", "a", "g", "s", "=">>
B_flags == <<"f", "l", "a", "g", "s">>
B_scale == <<"s", "c", "a", "l", "e">>
B_split == <<"s", "p", "l", "i", "t">>
B_null == <<"n", "u", "l", "l">>
B_overlay == <<"o", "v", "e", "r", "l", "a", "y">>
B_nullsrc == <<"n", "u", "l", "l", "s", "r", "c">>
B_nullsink == <<"n", "u", "l", "l", "s", "i", "n", "k">>
B_Parsed == <<"P", "a", "r", "s", "e", "d", "_">>

(***************************************************************************)
(* The scanner (GraphParser), as operators of the buffer t and cursor p.   *)
(***************************************************************************)
WsBytes == {" ", "\n", "\r", "\t"}
TrimBytes == {" ", "\n", "\t"}

peek(t, p) == IF p < Len(t) THEN Some(t[p + 1]) ELSE None

peek_len(t, p, len) == IF Len(t) - p >= len THEN Some(SubSeq(t, p + 1, p + len)) ELSE None

RECURSIVE ScanUntil(_, _, _)
\* the loop of peek_until and peek_until_end: the offset of the first byte at or
\* after it that is in S, or Len(t)
ScanUntil(t, it, S) ==
    IF it < Len(t) /\ t[it + 1] \notin S THEN ScanUntil(t, it + 1, S) ELSE it

\* a faulty variant: without a terminator the rest of the text is returned
peek_until_or_rest(t, p, S) == Some(SubSeq(t, p + 1, ScanUntil(t, p, S)))

\* a faulty variant: without a terminator an empty slice is returned
peek_until_empty(t, p, S) ==
    LET e == ScanUntil(t, p, S)
    IN  IF e < Len(t) THEN Some(SubSeq(t, p + 1, e)) ELSE Some(<<>>)

peek_until(t, p, S) ==
    LET e == ScanUntil(t, p, S)
    IN  IF e < Len(t) THEN Some(SubSeq(t, p + 1, e)) ELSE None

peek_until_end(t, p, S) == SubSeq(t, p + 1, ScanUntil(t, p, S))

remaining(t, p) == peek_until_end(t, p, {})

RECURSIVE skip_ws(_, _)
skip_ws(t, p) == IF p < Len(t) /\ t[p + 1] \in WsBytes THEN skip_ws(t, p + 1) ELSE p

\* a faulty variant: the cursor is left where it is
skip_nowhere(t, p, i) == p

\* a faulty variant: the cursor is not clamped to the end
skip_unclamped(t, p, i) == p + i

skip(t, p, i) == IF p + i <= Len(t) THEN p + i ELSE Len(t)

(***************************************************************************)
(* parse_sws_flags: the result, the cursor and scale_sws_opts afterwards.  *)
(***************************************************************************)
\* a faulty variant: the whole directive is skipped, its flags= part included
parse_sws_flags_value_only(t, p, opts) ==
    IF peek_len(t, p, 10) # Some(B_sws_flags)
    THEN [ok |-> TRUE, ptr |-> p, opts |-> opts]
    ELSE LET p10 == skip(t, p, 10)
             x == peek_until(t, p10, {";"})
         IN  IF x = None
             THEN [ok |-> FALSE, ptr |-> p10, opts |-> opts]
             ELSE [ok |-> TRUE, ptr |-> skip(t, p10, Len(Unwrap(x)) + 1), opts |-> x]

parse_sws_flags(t, p, opts) ==
    IF peek_len(t, p, 10) # Some(B_sws_flags)
    THEN [ok |-> TRUE, ptr |-> p, opts |-> opts]
    ELSE LET p4 == skip(t, p, 4)
             x == peek_until(t, p4, {";"})
         IN  IF x = None
             THEN [ok |-> FALSE, ptr |-> p4, opts |-> opts]
             ELSE [ok |-> TRUE, ptr |-> skip(t, p4, Len(Unwrap(x)) + 1), opts |-> x]

(***************************************************************************)
(* The filter registry the parser calls through ffi (libavfilter): which   *)
(* names avfilter_get_by_name knows, whether avfilter_init_str accepts an  *)
(* argument string, and the pad counts of the instance afterwards.  split  *)
(* creates its output pads while it initializes (two, or as many as its    *)
(* argument says); null and nullsink take no options.                      *)
(***************************************************************************)
KnownFilters == {B_scale, B_split, B_null, B_overlay, B_nullsrc, B_nullsink}

\* a faulty variant: the null check of the lookup is dropped
AnyFilterFound(filt_name) == TRUE

avfilter_get_by_name(filt_name) == filt_name \in KnownFilters

avfilter_init_str(filt_name, args) ==
    CASE filt_name = B_split ->
             IF args = <<>> THEN [ok |-> TRUE, nb_inputs |-> 1, nb_outputs |-> 2]
             ELSE IF args = <<"3">> THEN [ok |-> TRUE, nb_inputs |-> 1, nb_outputs |-> 3]
             ELSE [ok |-> FALSE, nb_inputs |-> 1, nb_outputs |-> 0]
      [] filt_name = B_null -> [ok |-> args = <<>>, nb_inputs |-> 1, nb_outputs |-> 1]
      [] filt_name = B_nullsink -> [ok |-> args = <<>>, nb_inputs |-> 1, nb_outputs |-> 0]
      [] filt_name = B_nullsrc -> [ok |-> TRUE, nb_inputs |-> 0, nb_outputs |-> 1]
      [] filt_name = B_overlay -> [ok |-> TRUE, nb_inputs |-> 2, nb_outputs |-> 1]
      [] filt_name = B_scale -> [ok |-> TRUE, nb_inputs |-> 1, nb_outputs |-> 1]
      [] OTHER -> [ok |-> FALSE, nb_inputs |-> 0, nb_outputs |-> 0]

(***************************************************************************)
(* create_filter                                                           *)
(***************************************************************************)
DigitBytes == <<"0", "1", "2", "3", "4", "5", "6", "7", "8", "9">>

RECURSIVE Dec(_)
\* format!("{}", n) of a usize
Dec(n) == IF n < 10 THEN <<DigitBytes[n + 1]>>
          ELSE Dec(n \div 10) \o <<DigitBytes[(n % 10) + 1]>>

\* name.iter().enumerate().find_map(|(i, &x)| (x == b'@').then_some(i))
FirstAt(name) ==
    LET e == ScanUntil(name, 0, {"@"})
    IN  IF e < Len(name) THEN Some(e) ELSE None

\* a faulty variant: the name is cut at its first '@' wherever that is
HasAt(name) == IsSome(FirstAt(name))

\* the instance name is cut off the name only when the first '@' is not its last byte
HasInstanceSuffix(name) ==
    IsSome(FirstAt(name)) /\ Unwrap(FirstAt(name)) + 1 # Len(name)

FiltNameOf(name) ==
    IF HasInstanceSuffix(name) THEN SubSeq(name, 1, Unwrap(FirstAt(name))) ELSE name

InstNameOf(name, index) ==
    IF HasInstanceSuffix(name) THEN name ELSE B_Parsed \o name \o <<"_">> \o Dec(index)

\* args.contains("flags")
Contains(s, sub) ==
    \E i \in 1..(Len(s) - Len(sub) + 1) : SubSeq(s, i, i + Len(sub) - 1) = sub

\* a faulty variant: the flags are inherited whether or not the args name flags
ArgsOfUnchecked(filt_name, args, opts) ==
    IF filt_name = B_scale /\ IsSome(opts)
    THEN IF args = <<>> THEN Unwrap(opts) ELSE args \o <<":">> \o Unwrap(opts)
    ELSE args

\* let args = { ... }: the argument text the instance is created with
ArgsOf(filt_name, args, opts) ==
    IF filt_name = B_scale /\ (args = <<>> \/ ~Contains(args, B_flags)) /\ IsSome(opts)
    THEN IF args = <<>> THEN Unwrap(opts) ELSE args \o <<":">> \o Unwrap(opts)
    ELSE args

DefaultFilterContext ==
    [index |-> 0, filt_name |-> <<>>, inst_name |-> <<>>, args |-> <<>>,
     nb_inputs |-> 0, nb_outputs |-> 0]

\* the result of a failed avfilter_init_str: an error is logged and the instance is
\* returned all the same, with the pad counts the failed initialization left
InitFailed(fc) == Some(fc)

\* Option<FilterContext>, and whether avfilter_init_str accepted the arguments
create_filter(opts, name, args, index) ==
    LET filt_name == FiltNameOf(name)
        a == ArgsOf(filt_name, args, opts)
        r == avfilter_init_str(filt_name, a)
        fc == [index |-> index, filt_name |-> filt_name,
               inst_name |-> InstNameOf(name, index), args |-> a,
               nb_inputs |-> r.nb_inputs, nb_outputs |-> r.nb_outputs]
    IN  IF ~avfilter_get_by_name(filt_name)
        THEN [filter |-> None, init_ok |-> FALSE]
        ELSE IF ~r.ok
        THEN [filter |-> InitFailed(fc), init_ok |-> FALSE]
        ELSE [filter |-> Some(fc), init_ok |-> TRUE]

(***************************************************************************)
(* parse_filter                                                            *)
(***************************************************************************)
NameEnd == {"=", ",", ";", "["}
OptsEnd == {"[", "]", ",", ";"}

\* a faulty variant: only the front of the text is stripped
trim_front(s) ==
    LET keep == {i \in 1..Len(s) : s[i] \notin TrimBytes}
    IN  IF keep = {} THEN <<>>
        ELSE SubSeq(s, CHOOSE i \in keep : \A j \in keep : i <= j, Len(s))

\* the closure trim of parse_filter
trim(s) ==
    LET keep == {i \in 1..Len(s) : s[i] \notin TrimBytes}
    IN  IF keep = {} THEN <<>>
        ELSE SubSeq(s, CHOOSE i \in keep : \A j \in keep : i <= j,
                       CHOOSE i \in keep : \A j \in keep : i >= j)

parse_filter(t, p, index, opts) ==
    LET name == peek_until_end(t, p, NameEnd)
        p1 == skip(t, p, Len(name))
        hasOpts == peek(t, p1) = Some("=")
        p2 == IF hasOpts THEN skip(t, p1, 1) ELSE p1
        o == IF hasOpts THEN peek_until_end(t, p2, OptsEnd) ELSE <<>>
        p3 == IF hasOpts THEN skip(t, p2, Len(o)) ELSE p1
        c == create_filter(opts, trim(name), trim(o), index)
    IN  [ok |-> IsSome(c.filter), ptr |-> p3, filter |-> c.filter, init_ok |-> c.init_ok]

(***************************************************************************)
(* Pad references (FilterInOut) and links (FilterLink).                    *)
(***************************************************************************)
FilterInOut(name, pad_idx, filter_ctx) ==
    [name |-> name, pad_idx |-> pad_idx, filter_ctx |-> filter_ctx]

\* a faulty variant: the two endpoints of the link are exchanged
FilterLinkSwapped(from_filter, from_pad_idx, to_filter, to_pad_idx) ==
    [from_filter |-> to_filter, from_pad_idx |-> to_pad_idx,
     to_filter |-> from_filter, to_pad_idx |-> from_pad_idx]

FilterLink(from_filter, from_pad_idx, to_filter, to_pad_idx) ==
    [from_filter |-> from_filter, from_pad_idx |-> from_pad_idx,
     to_filter |-> to_filter, to_pad_idx |-> to_pad_idx]

RemoveAt(s, i) == SubSeq(s, 1, i - 1) \o SubSeq(s, i + 1, Len(s))

\* a faulty variant: the last entry labelled name is taken, and an entry whose
\* label only starts with name is taken for a match
FindLabelLoose(pool, name) ==
    LET hits == {i \in 1..Len(pool) :
                    /\ pool[i].name # None
                    /\ Len(pool[i].name[1]) >= Len(name)
                    /\ SubSeq(pool[i].name[1], 1, Len(name)) = name}
    IN  IF hits = {} THEN None ELSE Some(CHOOSE i \in hits : \A j \in hits : i >= j)

\* a faulty variant: no entry is ever found
FindLabelNever(pool, name) == None

\* pool.iter().enumerate().find_map(|(i, x)| (x.name == Some(name)).then_some(i)):
\* the position of the first entry labelled name
FindLabel(pool, name) ==
    LET hits == {i \in 1..Len(pool) : pool[i].name = Some(name)}
    IN  IF hits = {} THEN None ELSE Some(CHOOSE i \in hits : \A j \in hits : i <= j)

\* a faulty variant: the matching entry is copied and left in the pool
ExtractInputKept(name, pad, pool) ==
    LET i == FindLabel(pool, name)
    IN  IF IsSome(i)
        THEN [inout |-> pool[Unwrap(i)], pool |-> pool]
        ELSE [inout |-> FilterInOut(Some(name), pad, None), pool |-> pool]

\* a faulty variant: the reference created for an unknown label loses its name
ExtractInputUnnamed(name, pad, pool) ==
    LET i == FindLabel(pool, name)
    IN  IF IsSome(i)
        THEN [inout |-> pool[Unwrap(i)], pool |-> RemoveAt(pool, Unwrap(i))]
        ELSE [inout |-> FilterInOut(None, pad, None), pool |-> pool]

\* extract_inout(name, open_outputs) of parse_inputs: the reference that becomes the
\* input, and the pool afterwards
ExtractInput(name, pad, pool) ==
    LET i == FindLabel(pool, name)
    IN  IF IsSome(i)
        THEN [inout |-> pool[Unwrap(i)], pool |-> RemoveAt(pool, Unwrap(i))]
        ELSE [inout |-> FilterInOut(Some(name), pad, None), pool |-> pool]

\* a faulty variant: the named inputs are put behind the pads carried over
MergeInputsAppended(parsed, curr) == curr \o parsed

\* *curr_inputs = parsed_inputs.iter().chain(curr_inputs.iter()).cloned().collect()
MergeInputs(parsed, curr) == parsed \o curr

(***************************************************************************)
(* link_filter_inouts                                                      *)
(***************************************************************************)
RECURSIVE LinkInputsUnowned(_, _, _, _, _, _)
\* a faulty variant of the loop: an open input is pushed without its owner
LinkInputsUnowned(pad, index, fc, lk, curr, oi) ==
    IF pad >= fc.nb_inputs
    THEN [links |-> lk, curr_inputs |-> curr, open_inputs |-> oi]
    ELSE LET p == IF curr = <<>> THEN FilterInOut(None, 0, None) ELSE Head(curr)
             rest == IF curr = <<>> THEN <<>> ELSE Tail(curr)
         IN  IF IsSome(p.filter_ctx)
             THEN LinkInputsUnowned(pad + 1, index, fc,
                      Append(lk, FilterLink(Unwrap(p.filter_ctx), p.pad_idx, index, pad)),
                      rest, oi)
             ELSE LinkInputsUnowned(pad + 1, index, fc, lk, rest,
                      Append(oi, FilterInOut(p.name, pad, None)))

RECURSIVE LinkInputs(_, _, _, _, _, _)
\* the loop over the input pads pad .. nb_inputs - 1 of the filter fc
LinkInputs(pad, index, fc, lk, curr, oi) ==
    IF pad >= fc.nb_inputs
    THEN [links |-> lk, curr_inputs |-> curr, open_inputs |-> oi]
    ELSE LET p == IF curr = <<>> THEN FilterInOut(None, 0, None) ELSE Head(curr)
             rest == IF curr = <<>> THEN <<>> ELSE Tail(curr)
         IN  IF IsSome(p.filter_ctx)
             THEN LinkInputs(pad + 1, index, fc,
                             Append(lk, FilterLink(Unwrap(p.filter_ctx), p.pad_idx, index, pad)),
                             rest, oi)
             ELSE LinkInputs(pad + 1, index, fc, lk, rest,
                             Append(oi, FilterInOut(p.name, pad, Some(fc.index))))

\* a faulty variant: one input too many is let through
TooManyInputsButOne(curr, fc) == Len(curr) > 1

\* if !curr_inputs.is_empty() { ... return Err(()) }
TooManyInputs(curr, fc) == curr # <<>>

\* a faulty variant: the output pads are listed last pad first
FreshOutputsReversed(fc) ==
    [i \in 1..fc.nb_outputs |-> FilterInOut(None, fc.nb_outputs - i, Some(fc.index))]

\* the fresh references to the output pads of the filter
FreshOutputs(fc) ==
    [i \in 1..fc.nb_outputs |-> FilterInOut(None, i - 1, Some(fc.index))]

RECURSIVE LinkInputsCovered(_, _, _, _, _, _)
\* a faulty variant of the loop: it ends when the current inputs run out
LinkInputsCovered(pad, index, fc, lk, curr, oi) ==
    IF pad >= fc.nb_inputs \/ curr = <<>>
    THEN [links |-> lk, curr_inputs |-> curr, open_inputs |-> oi]
    ELSE IF IsSome(Head(curr).filter_ctx)
         THEN LinkInputsCovered(pad + 1, index, fc,
                  Append(lk, FilterLink(Unwrap(Head(curr).filter_ctx), Head(curr).pad_idx,
                                        index, pad)),
                  Tail(curr), oi)
         ELSE LinkInputsCovered(pad + 1, index, fc, lk, Tail(curr),
                  Append(oi, FilterInOut(Head(curr).name, pad, Some(fc.index))))

\* a faulty variant: the input pads that no current input covers are forgotten
link_filter_inouts_covered(index, lk, fc, curr, oi) ==
    LET r == LinkInputsCovered(0, index, fc, lk, curr, oi)
    IN  IF TooManyInputs(r.curr_inputs, fc)
        THEN [ok |-> FALSE, links |-> r.links, curr_inputs |-> r.curr_inputs,
              open_inputs |-> r.open_inputs]
        ELSE [ok |-> TRUE, links |-> r.links, curr_inputs |-> FreshOutputs(fc),
              open_inputs |-> r.open_inputs]

link_filter_inouts(index, lk, fc, curr, oi) ==
    LET r == LinkInputs(0, index, fc, lk, curr, oi)
    IN  IF TooManyInputs(r.curr_inputs, fc)
        THEN [ok |-> FALSE, links |-> r.links, curr_inputs |-> r.curr_inputs,
              open_inputs |-> r.open_inputs]
        ELSE [ok |-> TRUE, links |-> r.links, curr_inputs |-> FreshOutputs(fc),
              open_inputs |-> r.open_inputs]

(***************************************************************************)
(* The state of one call of avfilter_graph_parse2.                         *)
(***************************************************************************)
VARIABLES
    text,           \* the buffer (filters: &str)
    ptr,            \* the cursor of the scanner
    pc,             \* the position of the call in its code
    index,          \* the loop variable of the filter-spec loop
    scale_sws_opts, \* graph.scale_sws_opts
    filters, links, curr_inputs, open_inputs, open_outputs,
    filter,         \* the FilterContext of the iteration
    parsed_inputs,  \* the local list of parse_inputs
    pad,            \* the loop variable of parse_inputs
    result,         \* "none" while running, then "Ok", "Err" or "Panic"
    err,            \* which failure ended the call
    printed,        \* what the serialization has written to stdout
    chain,          \* history: the number of ';' separators passed
    labels,         \* history: the [label] tokens handled so far
    rejected,       \* history: the indices of the filters whose avfilter_init_str failed
    calls,          \* the number of calls of the parser started
    prev,           \* the outcome of the call before this one
    last,           \* history: the last scanner call made directly, with what it returned
    entry           \* history: the lists as they were when parse_inputs or
                    \* parse_outputs was entered last

vars == <<text, ptr, pc, index, scale_sws_opts, filters, links, curr_inputs,
          open_inputs, open_outputs, filter, parsed_inputs, pad, result, err,
          printed, chain, labels, rejected, calls, prev, last, entry>>

\* what a call leaves when it returns
Outcome ==
    [result |-> result, err |-> err, filters |-> filters, links |-> links,
     open_inputs |-> open_inputs, open_outputs |-> open_outputs, printed |-> printed]

(***************************************************************************)
(* The input texts: every concatenation of at most n tokens of a set.      *)
(***************************************************************************)
RECURSIVE Flatten(_)
Flatten(ts) == IF ts = <<>> THEN <<>> ELSE Head(ts) \o Flatten(Tail(ts))

Texts(toks, n) == {Flatten(ts) : ts \in UNION {[1..k -> toks] : k \in 0..n}}

L_a == <<"[", "a", "]">>
L_b == <<"[", "b", "]">>
L_aa == <<"[", "a", "a", "]">>
\* a label that is opened and never closed
L_open == <<"[", "b">>

GraphToks == {L_a, L_b, B_split, B_null, B_overlay, <<",">>, <<";">>}
LabelToks == {L_a, L_b, B_split, B_null, <<";">>}
LexToks == {B_sws_flags, B_null, L_a, <<"x">>, <<"=">>, <<"@">>, <<" ">>, <<",">>, <<";">>}
TwiceToks == {B_sws_flags \o <<"x", ";">>, B_scale, B_null, L_a, <<",">>, <<";">>}
DupToks == {L_a, L_aa, B_split, B_overlay, <<";">>}
OpenToks == {L_a, L_open, B_split, B_null, <<";">>}
FairToks == {B_null, L_a, <<" ", "[">>, <<",">>, <<";">>}
SwsToks == {B_sws_flags \o <<"x", ";">>, B_scale, B_null, B_flags, <<"w">>, <<"=">>,
            L_a, <<",">>}

\* no scanner call was made directly yet
NoCall == [op |-> "none", arg |-> None, ret |-> None]

\* the lists when parse_inputs or parse_outputs (call) is entered
Entry(call, lk, curr, oi, oo) ==
    [call |-> call, links |-> lk, curr_inputs |-> curr, open_inputs |-> oi,
     open_outputs |-> oo]

NoEntry == Entry("none", <<>>, <<>>, <<>>, <<>>)

\* the locals of a call as avfilter_graph_parse2 creates them
FreshCall ==
    /\ ptr = 0
    /\ pc = "start"
    /\ index = 0
    /\ scale_sws_opts = None
    /\ filters = <<>>
    /\ links = <<>>
    /\ curr_inputs = <<>>
    /\ open_inputs = <<>>
    /\ open_outputs = <<>>
    /\ filter = DefaultFilterContext
    /\ parsed_inputs = <<>>
    /\ pad = 0
    /\ result = "none"
    /\ err = "none"
    /\ printed = <<>>
    /\ chain = 0
    /\ labels = <<>>
    /\ rejected = {}
    /\ entry = NoEntry

InitOver(texts) ==
    /\ text \in texts
    /\ FreshCall
    /\ calls = 1
    /\ prev = None
    /\ last = NoCall

Init == InitOver(Texts(GraphToks, MaxToks))

\* return Err(()) / a panic: the call ends
Fail(kind, how) ==
    /\ pc' = "done"
    /\ result' = how
    /\ err' = kind

(***************************************************************************)
(* avfilter_graph_parse2, step by step.                                    *)
(***************************************************************************)
\* the call up to the filter-spec loop: skip_ws, parse_sws_flags(..).unwrap()
Start ==
    /\ pc = "start"
    /\ LET r == parse_sws_flags(text, skip_ws(text, ptr), scale_sws_opts)
       IN  /\ ptr' = r.ptr
           /\ scale_sws_opts' = r.opts
           /\ IF r.ok
              THEN pc' = "spec" /\ UNCHANGED <<result, err>>
              ELSE Fail("UnterminatedDirective", "Panic")
    /\ UNCHANGED <<text, index, filters, links, curr_inputs, open_inputs, open_outputs,
                   filter, parsed_inputs, pad, printed, chain, labels, rejected, calls, prev,
                   last, entry>>

\* the top of the loop body and the entry of parse_inputs
BeginSpec ==
    /\ pc = "spec"
    /\ filter' = DefaultFilterContext
    /\ ptr' = skip_ws(text, ptr)
    /\ parsed_inputs' = <<>>
    /\ pad' = 0
    /\ pc' = "inputs"
    /\ entry' = Entry("parse_inputs", links, curr_inputs, open_inputs, open_outputs)
    /\ UNCHANGED <<text, index, scale_sws_opts, filters, links, curr_inputs, open_inputs,
                   open_outputs, result, err, printed, chain, labels, rejected, calls, prev,
                   last>>

\* one iteration of the loop of parse_inputs that finds a '['
ParseInputsLabel ==
    /\ pc = "inputs"
    /\ peek(text, ptr) = Some("[")
    /\ LET p1 == skip(text, ptr, 1)
           name == peek_until(text, p1, {"]"})
       IN  IF name = None
           THEN /\ ptr' = p1
                /\ Fail("UnterminatedLabel", "Err")
                /\ UNCHANGED <<open_outputs, parsed_inputs, pad, labels>>
           ELSE LET n == Unwrap(name)
                    x == ExtractInput(n, pad, open_outputs)
                IN  /\ ptr' = skip_ws(text, skip(text, p1, Len(n) + 1))
                    /\ open_outputs' = x.pool
                    /\ parsed_inputs' = Append(parsed_inputs, x.inout)
                    /\ pad' = pad + 1
                    /\ labels' = Append(labels, [dir |-> "in", chain |-> chain, name |-> n,
                                                 filter |-> index, pos |-> pad])
                    /\ UNCHANGED <<pc, result, err>>
    /\ UNCHANGED <<text, index, scale_sws_opts, filters, links, curr_inputs, open_inputs,
                   filter, printed, chain, rejected, calls, prev, last, entry>>

\* the iteration that finds no '[': the loop ends and parse_inputs returns
ParseInputsEnd ==
    /\ pc = "inputs"
    /\ peek(text, ptr) # Some("[")
    /\ curr_inputs' = MergeInputs(parsed_inputs, curr_inputs)
    /\ pc' = "filter"
    /\ UNCHANGED <<text, ptr, index, scale_sws_opts, filters, links, open_inputs,
                   open_outputs, filter, parsed_inputs, pad, result, err, printed, chain,
                   labels, rejected, calls, prev, last, entry>>

ParseFilter ==
    /\ pc = "filter"
    /\ LET r == parse_filter(text, ptr, index, scale_sws_opts)
       IN  /\ ptr' = r.ptr
           /\ rejected' = IF r.ok /\ ~r.init_ok THEN rejected \cup {index} ELSE rejected
           /\ IF r.ok
              THEN filter' = Unwrap(r.filter) /\ pc' = "link" /\ UNCHANGED <<result, err>>
              ELSE UNCHANGED filter /\ Fail("UnknownFilter", "Err")
    /\ UNCHANGED <<text, index, scale_sws_opts, filters, links, curr_inputs, open_inputs,
                   open_outputs, parsed_inputs, pad, printed, chain, labels, calls, prev,
                   last, entry>>

LinkFilterInouts ==
    /\ pc = "link"
    /\ LET r == link_filter_inouts(index, links, filter, curr_inputs, open_inputs)
       IN  /\ links' = r.links
           /\ curr_inputs' = r.curr_inputs
           /\ open_inputs' = r.open_inputs
           /\ entry' = IF r.ok
                       THEN Entry("parse_outputs", r.links, r.curr_inputs, r.open_inputs,
                                  open_outputs)
                       ELSE entry
           /\ IF r.ok
              THEN pc' = "outputs" /\ UNCHANGED <<result, err>>
              ELSE Fail("TooManyInputs", "Err")
    /\ UNCHANGED <<text, ptr, index, scale_sws_opts, filters, open_outputs, filter,
                   parsed_inputs, pad, printed, chain, labels, rejected, calls, prev,
                   last>>

\* a faulty variant: the last output pad cannot be labelled
NoOutputPadButOne(curr) == Len(curr) <= 1

\* if curr_inputs.is_empty() { error!("No output pad can be associated ...") }
NoOutputPad(curr) == curr = <<>>

\* one iteration of the loop of parse_outputs that finds a '['
ParseOutputsLabel ==
    /\ pc = "outputs"
    /\ peek(text, ptr) = Some("[")
    /\ LET p1 == skip(text, ptr, 1)
           name == peek_until(text, p1, {"]"})
       IN  IF name = None
           THEN /\ ptr' = p1
                /\ Fail("UnterminatedLabel", "Err")
                /\ UNCHANGED <<links, curr_inputs, open_inputs, open_outputs, labels>>
           ELSE LET n == Unwrap(name)
                    p2 == skip(text, p1, Len(n) + 1)
                IN  IF NoOutputPad(curr_inputs)
                    THEN /\ ptr' = p2
                         /\ Fail("TooFewOutputs", "Err")
                         /\ UNCHANGED <<links, curr_inputs, open_inputs, open_outputs, labels>>
                    ELSE LET input == Head(curr_inputs)
                             i == FindLabel(open_inputs, n)
                         IN  /\ curr_inputs' = Tail(curr_inputs)
                             /\ labels' = Append(labels,
                                    [dir |-> "out", chain |-> chain, name |-> n,
                                     filter |-> index, pos |-> input.pad_idx])
                             /\ IF IsSome(i)
                                THEN LET open_input == open_inputs[Unwrap(i)]
                                     IN  /\ open_inputs' = RemoveAt(open_inputs, Unwrap(i))
                                         /\ UNCHANGED open_outputs
                                         /\ IF IsSome(open_input.filter_ctx)
                                            THEN /\ links' = Append(links,
                                                        FilterLink(index, input.pad_idx,
                                                                   Unwrap(open_input.filter_ctx),
                                                                   open_input.pad_idx))
                                                 /\ ptr' = skip_ws(text, p2)
                                                 /\ UNCHANGED <<pc, result, err>>
                                            ELSE /\ UNCHANGED links
                                                 /\ ptr' = p2
                                                 /\ Fail("UnwrapNone", "Panic")
                                ELSE /\ open_outputs' =
                                            Append(open_outputs,
                                                   [input EXCEPT !.name = Some(n)])
                                     /\ ptr' = skip_ws(text, p2)
                                     /\ UNCHANGED <<links, open_inputs, pc, result, err>>
    /\ UNCHANGED <<text, index, scale_sws_opts, filters, filter, parsed_inputs, pad,
                   printed, chain, rejected, calls, prev, last, entry>>

\* the iteration that finds no '[': the loop ends and parse_outputs returns
ParseOutputsEnd ==
    /\ pc = "outputs"
    /\ peek(text, ptr) # Some("[")
    /\ pc' = "dispatch"
    /\ UNCHANGED <<text, ptr, index, scale_sws_opts, filters, links, curr_inputs,
                   open_inputs, open_outputs, filter, parsed_inputs, pad, result, err,
                   printed, chain, labels, rejected, calls, prev, last, entry>>

\* a faulty variant: the unclaimed pads are dropped instead of appended
FlushOutputsDropped(pool, curr) == pool

\* a faulty variant: the unclaimed pads are put in front of the pool
FlushOutputsFront(pool, curr) == curr \o pool

\* open_outputs.append(&mut curr_inputs): the pool afterwards
FlushOutputs(pool, curr) == pool \o curr

\* a faulty variant: the index restarts with every chain
NextIndexPerChain(i, sep) == IF sep = ";" THEN 0 ELSE i + 1

\* for index in 0..: the index of the next iteration
NextIndex(i, sep) == i + 1

\* a faulty variant: any other byte is taken for a ','
MatchNextLenient(b) ==
    CASE b = Some(";") -> "semicolon"
      [] b = None -> "end"
      [] OTHER -> "comma"

\* match parser.peek() { Some(b',') .. Some(b';') .. Some(_) .. None }: the arm taken
MatchNext(b) ==
    CASE b = Some(",") -> "comma"
      [] b = Some(";") -> "semicolon"
      [] b = None -> "end"
      [] OTHER -> "other"

\* skip_ws, filters.push(filter) and the match on the next byte
Dispatch ==
    /\ pc = "dispatch"
    /\ LET p == skip_ws(text, ptr)
           arm == MatchNext(peek(text, p))
       IN  /\ filters' = Append(filters, filter)
           /\ CASE arm = "comma" ->
                     /\ ptr' = skip(text, p, 1)
                     /\ index' = NextIndex(index, ",")
                     /\ pc' = "spec"
                     /\ UNCHANGED <<curr_inputs, open_outputs, chain, result, err>>
                [] arm = "semicolon" ->
                     /\ open_outputs' = FlushOutputs(open_outputs, curr_inputs)
                     /\ curr_inputs' = <<>>
                     /\ ptr' = skip(text, p, 1)
                     /\ index' = NextIndex(index, ";")
                     /\ chain' = chain + 1
                     /\ pc' = "spec"
                     /\ UNCHANGED <<result, err>>
                [] arm = "end" ->
                     /\ ptr' = p
                     /\ pc' = "serialize"
                     /\ UNCHANGED <<index, curr_inputs, open_outputs, chain, result, err>>
                [] OTHER ->
                     /\ ptr' = p
                     /\ Fail("UnexpectedTrailingText", "Err")
                     /\ UNCHANGED <<index, curr_inputs, open_outputs, chain>>
    /\ UNCHANGED <<text, scale_sws_opts, links, open_inputs, filter, parsed_inputs, pad,
                   printed, labels, rejected, calls, prev, last, entry>>

(***************************************************************************)
(* The serialization of the result (the code from the end of the loop to   *)
(* Ok(())): each println!, in order, with the panic that evaluating its    *)
(* arguments can raise.                                                    *)
(***************************************************************************)
InoutStep(kind, io, i, n) ==
    [out |-> <<kind, i - 1, io.pad_idx, io.filter_ctx>>,
     panic |-> IF io.filter_ctx = None THEN "UnwrapNone"
               ELSE IF Unwrap(io.filter_ctx) >= n THEN "IndexOutOfBounds"
               ELSE "none"]

\* for i in 1..n: code_name[i - 1]->next = code_name[i]
NextSteps(kind, n) ==
    IF n <= 1 THEN <<>>
    ELSE [i \in 1..(n - 1) |-> [out |-> <<"next", kind, i - 1, i>>, panic |-> "none"]]

SerializeSteps(opts, flt, lk, oi, oo) ==
    (IF IsSome(opts) THEN <<[out |-> <<"sws", Unwrap(opts)>>, panic |-> "none"]>> ELSE <<>>)
    \o [i \in 1..Len(flt) |->
            [out |-> <<"filter", i - 1, flt[i].filt_name, flt[i].inst_name, flt[i].args>>,
             panic |-> "none"]]
    \o [i \in 1..Len(lk) |->
            [out |-> <<"link", lk[i].from_filter, lk[i].from_pad_idx,
                       lk[i].to_filter, lk[i].to_pad_idx>>,
             panic |-> IF lk[i].from_filter >= Len(flt) \/ lk[i].to_filter >= Len(flt)
                       THEN "IndexOutOfBounds" ELSE "none"]]
    \o [i \in 1..Len(oi) |-> InoutStep("input", oi[i], i, Len(flt))]
    \o [i \in 1..Len(oo) |-> InoutStep("output", oo[i], i, Len(flt))]
    \o <<[out |-> <<"head">>,
          panic |-> IF oi = <<>> \/ oo = <<>> THEN "IndexOutOfBounds" ELSE "none"]>>
    \o NextSteps("input", Len(oi))
    \o NextSteps("output", Len(oo))

\* the position of the first step that panics, or one past the last step
FirstPanic(steps) ==
    LET bad == {i \in 1..Len(steps) : steps[i].panic # "none"}
    IN  IF bad = {} THEN Len(steps) + 1 ELSE CHOOSE i \in bad : \A j \in bad : i <= j

Serialize ==
    /\ pc = "serialize"
    /\ open_outputs' = FlushOutputs(open_outputs, curr_inputs)
    /\ curr_inputs' = <<>>
    /\ LET steps == SerializeSteps(scale_sws_opts, filters, links, open_inputs,
                                   FlushOutputs(open_outputs, curr_inputs))
           k == FirstPanic(steps)
       IN  /\ printed' = [i \in 1..(k - 1) |-> steps[i].out]
           /\ pc' = "done"
           /\ IF k > Len(steps)
              THEN result' = "Ok" /\ err' = "none"
              ELSE result' = "Panic" /\ err' = steps[k].panic
    /\ UNCHANGED <<text, ptr, index, scale_sws_opts, filters, links, open_inputs, filter,
                   parsed_inputs, pad, chain, labels, rejected, calls, prev, last, entry>>

(***************************************************************************)
(* A further call of avfilter_graph_parse2 on the same text: every local   *)
(* of the call is created anew.                                            *)
(***************************************************************************)
NewFilters == <<>>
NewLinks == <<>>
NewCurrInputs == <<>>
NewOpenInputs == <<>>
\* a faulty variant: the pool outlives the call (a static)
StaleOpenOutputs == open_outputs

NewOpenOutputs == <<>>
NewGraph == None

Call ==
    /\ pc = "done"
    /\ result \in {"Ok", "Err"}
    /\ calls < MaxCalls
    /\ prev' = Some(Outcome)
    /\ calls' = calls + 1
    /\ ptr' = 0
    /\ pc' = "start"
    /\ index' = 0
    /\ scale_sws_opts' = NewGraph
    /\ filters' = NewFilters
    /\ links' = NewLinks
    /\ curr_inputs' = NewCurrInputs
    /\ open_inputs' = NewOpenInputs
    /\ open_outputs' = NewOpenOutputs
    /\ filter' = DefaultFilterContext
    /\ parsed_inputs' = <<>>
    /\ pad' = 0
    /\ result' = "none"
    /\ err' = "none"
    /\ printed' = <<>>
    /\ chain' = 0
    /\ labels' = <<>>
    /\ rejected' = {}
    /\ entry' = NoEntry
    /\ UNCHANGED <<text, last>>

Next ==
    \/ Start
    \/ BeginSpec
    \/ ParseInputsLabel
    \/ ParseInputsEnd
    \/ ParseFilter
    \/ LinkFilterInouts
    \/ ParseOutputsLabel
    \/ ParseOutputsEnd
    \/ Dispatch
    \/ Serialize

Spec == Init /\ [][Next]_vars

InitLabels == InitOver(Texts(LabelToks, MaxLabelToks))

SpecLabels == InitLabels /\ [][Next]_vars

InitLex == InitOver(Texts(LexToks, MaxLexToks))

SpecLex == InitLex /\ [][Next]_vars

\* the caller before the call: the text is not chosen yet
InitCaller ==
    /\ text = <<>>
    /\ FreshCall
    /\ calls = 0
    /\ prev = None
    /\ last = NoCall

\* the caller calls avfilter_graph_parse2 with a text
CallWith ==
    /\ calls = 0
    /\ pc = "start"
    /\ text' \in Texts(FairToks, MaxFairToks)
    /\ calls' = 1
    /\ UNCHANGED <<ptr, pc, index, scale_sws_opts, filters, links, curr_inputs, open_inputs,
                   open_outputs, filter, parsed_inputs, pad, result, err, printed, chain,
                   labels, rejected, prev, last, entry>>

\* a step of the call, once it is made
Running == calls > 0 /\ Next

NextFair == CallWith \/ Running

\* the call runs on until it returns: nothing but its own steps can stop it
SpecLexFair == InitCaller /\ [][NextFair]_vars /\ WF_vars(NextFair)

NextTwice == Next \/ Call

InitTwice == InitOver(Texts(TwiceToks, MaxTwiceToks))

SpecTwice == InitTwice /\ [][NextTwice]_vars

InitDup == InitOver(Texts(DupToks, MaxDupToks))

SpecDup == InitDup /\ [][Next]_vars

InitOpen == InitOver(Texts(OpenToks, MaxOpenToks))

SpecOpen == InitOpen /\ [][Next]_vars

InitSws == InitOver(Texts(SwsToks, MaxSwsToks))

SpecSws == InitSws /\ [][Next]_vars

(***************************************************************************)
(* The scanner used on its own, as the unit tests of the module use it: a   *)
(* GraphParser over a text, and any of its methods called in any order.     *)
(* last records the call and what it returned; a predicate F: Fn(u8) ->     *)
(* bool is the set of the bytes it holds for.                               *)
(***************************************************************************)
W_blank == <<" ", "\t", "\n">>
EqArg == <<"=", " ", "x", "\n">>

ScanToks == {W_blank, <<"\r">>, B_null, EqArg, <<"=">>, <<",">>, <<";">>, <<"[">>,
             <<"]">>}

Preds == {{";"}, NameEnd, OptsEnd}

Lens == 0..MaxSkip

InitScan ==
    /\ text \in Texts(ScanToks, MaxScanToks)
    /\ ptr = 0
    /\ pc = "scan"
    /\ index = 0
    /\ scale_sws_opts = None
    /\ filters = <<>>
    /\ links = <<>>
    /\ curr_inputs = <<>>
    /\ open_inputs = <<>>
    /\ open_outputs = <<>>
    /\ filter = DefaultFilterContext
    /\ parsed_inputs = <<>>
    /\ pad = 0
    /\ result = "none"
    /\ err = "none"
    /\ printed = <<>>
    /\ chain = 0
    /\ labels = <<>>
    /\ rejected = {}
    /\ entry = NoEntry
    /\ calls = 0
    /\ prev = None
    /\ last = NoCall

\* what a scanner call leaves alone
ScannerFrame ==
    UNCHANGED <<text, pc, index, scale_sws_opts, filters, links, curr_inputs, open_inputs,
                open_outputs, filter, parsed_inputs, pad, result, err, printed, chain,
                labels, rejected, calls, prev, entry>>

\* fn get(&mut self): the byte at the cursor, and the cursor afterwards
get(t, p) == [ret |-> peek(t, p), ptr |-> IF p < Len(t) THEN p + 1 ELSE p]

\* a faulty variant: peek written as get
PeekCallAdvancing(t, p) == get(t, p)

\* fn peek(&self): the byte at the cursor, and the cursor afterwards
PeekCall(t, p) == [ret |-> peek(t, p), ptr |-> p]

Get ==
    /\ pc = "scan"
    /\ last' = [op |-> "get", arg |-> None, ret |-> get(text, ptr).ret]
    /\ ptr' = get(text, ptr).ptr
    /\ ScannerFrame

Peek ==
    /\ pc = "scan"
    /\ last' = [op |-> "peek", arg |-> None, ret |-> PeekCall(text, ptr).ret]
    /\ ptr' = PeekCall(text, ptr).ptr
    /\ ScannerFrame

PeekLen ==
    /\ pc = "scan"
    /\ \E len \in Lens :
           last' = [op |-> "peek_len", arg |-> len, ret |-> peek_len(text, ptr, len)]
    /\ UNCHANGED ptr
    /\ ScannerFrame

PeekUntil ==
    /\ pc = "scan"
    /\ \E f \in Preds :
           last' = [op |-> "peek_until", arg |-> f, ret |-> peek_until(text, ptr, f)]
    /\ UNCHANGED ptr
    /\ ScannerFrame

PeekUntilEnd ==
    /\ pc = "scan"
    /\ \E f \in Preds :
           last' = [op |-> "peek_until_end", arg |-> f,
                    ret |-> peek_until_end(text, ptr, f)]
    /\ UNCHANGED ptr
    /\ ScannerFrame

Remaining ==
    /\ pc = "scan"
    /\ last' = [op |-> "remaining", arg |-> None, ret |-> remaining(text, ptr)]
    /\ UNCHANGED ptr
    /\ ScannerFrame

Skip ==
    /\ pc = "scan"
    /\ \E i \in Lens :
           /\ last' = [op |-> "skip", arg |-> i, ret |-> None]
           /\ ptr' = skip(text, ptr, i)
    /\ ScannerFrame

SkipWs ==
    /\ pc = "scan"
    /\ last' = [op |-> "skip_ws", arg |-> None, ret |-> None]
    /\ ptr' = skip_ws(text, ptr)
    /\ ScannerFrame

\* p.parse_filter(0, filter, graph) on a fresh graph, as the tests of parse_filter
\* call it
ScanParseFilter ==
    /\ pc = "scan"
    /\ LET r == parse_filter(text, ptr, 0, None)
       IN  /\ last' = [op |-> "parse_filter", arg |-> None, ret |-> r.filter]
           /\ ptr' = r.ptr
    /\ ScannerFrame

NextScan ==
    \/ Get
    \/ Peek
    \/ PeekLen
    \/ PeekUntil
    \/ PeekUntilEnd
    \/ Remaining
    \/ Skip
    \/ SkipWs
    \/ ScanParseFilter

SpecScan == InitScan /\ [][NextScan]_vars

(***************************************************************************)
(* Properties.                                                             *)
(***************************************************************************)
\* the filter-spec loop was left at the end of the input: the lists are final
ParsedAll ==
    /\ pc = "done"
    /\ \/ result = "Ok"
       \/ result = "Panic" /\ err = "IndexOutOfBounds"

Count(seq, P(_)) == Cardinality({i \in DOMAIN seq : P(seq[i])})

LinksInto(f, p) == Count(links, LAMBDA l : l.to_filter = f /\ l.to_pad_idx = p)
LinksFrom(f, q) == Count(links, LAMBDA l : l.from_filter = f /\ l.from_pad_idx = q)
OpenInputsAt(f, p) == Count(open_inputs, LAMBDA io : io.filter_ctx = Some(f) /\ io.pad_idx = p)
OpenOutputsAt(f, q) == Count(open_outputs, LAMBDA io : io.filter_ctx = Some(f) /\ io.pad_idx = q)

\* C1: after a parse that reached the end of the input without an error, every
\* input pad of every filter is the destination of a link or an entry of the open
\* inputs, exactly once in all, and every output pad is the source of a link or an
\* entry of the open outputs, exactly once in all.
C1_PadsAccountedOnce ==
    ParsedAll =>
        \A n \in 1..Len(filters) :
            /\ \A p \in 0..(filters[n].nb_inputs - 1) :
                   LinksInto(n - 1, p) + OpenInputsAt(n - 1, p) = 1
            /\ \A q \in 0..(filters[n].nb_outputs - 1) :
                   LinksFrom(n - 1, q) + OpenOutputsAt(n - 1, q) = 1

\* a finished parse of two filters or more with a link, a labelled open output, an
\* unlabelled open output and an open input
C1_Witness ==
    /\ ParsedAll
    /\ Len(filters) >= 2
    /\ links # <<>>
    /\ open_inputs # <<>>
    /\ \E i \in DOMAIN open_outputs : open_outputs[i].name # None
    /\ \E i \in DOMAIN open_outputs : open_outputs[i].name = None

\* C3: the filter list holds the instances in the order of their specs in the
\* text, the n-th (0-based) with index n, whatever separator came before it: the
\* indices are 0, 1, 2, ... and the spec being parsed has the next index.
C3_IndexIsPosition ==
    /\ \A n \in 1..Len(filters) : filters[n].index = n - 1
    /\ pc \in {"link", "outputs", "dispatch"} =>
           filter.index = index /\ Len(filters) = index

\* three filters, the second after a ',' and the third after a ';'
C3_Witness ==
    /\ ParsedAll
    /\ Len(filters) = 3
    /\ chain = 1
    /\ \E i \in DOMAIN links : links[i].from_filter = 0 /\ links[i].to_filter = 1

\* the trailing label labels[o] of one chain is named by the leading label labels[d]
\* of the next chain, on a filter with an input pad for it
Forwarded(o, d) ==
    /\ labels[o].dir = "out"
    /\ labels[d].dir = "in"
    /\ labels[d].name = labels[o].name
    /\ labels[d].chain = labels[o].chain + 1
    /\ filters[labels[d].filter + 1].nb_inputs > labels[d].pos

\* exactly one link from the pad of labels[o] to the pad of labels[d], and no open
\* entry with their label
LinkedOnce(o, d) ==
    /\ Count(links, LAMBDA l : l = FilterLink(labels[o].filter, labels[o].pos,
                                              labels[d].filter, labels[d].pos)) = 1
    /\ \A i \in DOMAIN open_inputs : open_inputs[i].name # Some(labels[o].name)
    /\ \A i \in DOMAIN open_outputs : open_outputs[i].name # Some(labels[o].name)

\* the label of labels[o] is attached to no other output pad and names no other input
UsedOnce(o, d) ==
    \A k \in DOMAIN labels : labels[k].name = labels[o].name => k \in {o, d}

\* C2 as claimed: a label attached to an output pad (f,q) in one chain and named as
\* the i-th leading input label of a filter g of the next chain, g having more than
\* i input pads, gives exactly one link (f,q) -> (g,i), and no open input or open
\* output with that label is left.
C2_Original_ForwardedLabelLinkedOnce ==
    ParsedAll =>
        \A o \in DOMAIN labels : \A d \in DOMAIN labels :
            Forwarded(o, d) => LinkedOnce(o, d)

\* C2 as amended: the same, for a label that occurs nowhere else in the text.
C2_UniqueForwardedLabelLinkedOnce ==
    ParsedAll =>
        \A o \in DOMAIN labels : \A d \in DOMAIN labels :
            Forwarded(o, d) /\ UsedOnce(o, d) => LinkedOnce(o, d)

\* a finished parse where a label used once is forwarded to the next chain, beside
\* another label
C2_Witness ==
    /\ ParsedAll
    /\ \E o \in DOMAIN labels : \E d \in DOMAIN labels :
           Forwarded(o, d) /\ UsedOnce(o, d) /\ LinkedOnce(o, d)
    /\ Len(labels) >= 3

SwsUnterminated ==
    LET p == skip_ws(text, 0)
    IN  /\ peek_len(text, p, 10) = Some(B_sws_flags)
        /\ \A i \in (p + 11)..Len(text) : text[i] # ";"

\* C5 as claimed: when the text starts with sws_flags= and no ';' follows, the call
\* ends by returning an error (UnterminatedDirective), as for every other failure of
\* the parse.
C5_UnterminatedDirectiveReturnsErr ==
    (SwsUnterminated /\ pc # "start") =>
        (pc = "done" /\ result = "Err" /\ err = "UnterminatedDirective")

\* C6 as claimed: when avfilter_init_str rejects the arguments of a known filter,
\* the parse fails (FilterInitError) and no instance of that filter is in the graph.
C6_RejectedInitFails ==
    rejected # {} =>
        /\ pc = "done" /\ result = "Err" /\ err = "FilterInitError"
        /\ \A n \in DOMAIN filters : filters[n].index \notin rejected

\* the filter name of the spec at the cursor as the claim gives it: the text up to
\* the first of = , ; [ trimmed, and cut before its first '@' when more follows it
SpecFilterName ==
    LET nm == trim(peek_until_end(text, ptr, NameEnd))
        ats == {i \in 1..Len(nm) : nm[i] = "@"}
        at == CHOOSE i \in ats : \A j \in ats : i <= j
    IN  IF ats # {} /\ at # Len(nm) THEN SubSeq(nm, 1, at - 1) ELSE nm

\* C7: when the filter name of a spec is not known to the registry, parse_filter
\* and the parse fail with UnknownFilter and no filter instance is created.
C7_UnknownFilterFails ==
    [][(pc = "filter" /\ SpecFilterName \notin KnownFilters) =>
          /\ pc' = "done" /\ result' = "Err" /\ err' = "UnknownFilter"
          /\ filters' = filters
          /\ filter' = DefaultFilterContext]_vars

\* UnknownFilter for the name null@ between whitespace: the name is trimmed, and
\* its '@', being its last byte, is not cut off
C7_Witness ==
    /\ pc = "done"
    /\ err = "UnknownFilter"
    /\ filters = <<>>
    /\ Len(text) > 5
    /\ trim(text) = B_null \o <<"@">>

\* C8: linking a filter fails with TooManyInputs exactly when there are more
\* current inputs than the filter has input pads; the current inputs are the
\* leading labels of the spec and the pads carried over from the filter before.
C8_TooManyInputsExactly ==
    [][/\ pc = "link" =>
             ((pc' = "done" /\ result' = "Err" /\ err' = "TooManyInputs")
                  <=> Len(curr_inputs) > filter.nb_inputs)
       /\ (pc = "inputs" /\ pc' = "filter") =>
             Len(curr_inputs') = pad + Len(curr_inputs)]_vars

\* TooManyInputs for a filter that has an input pad, with a leading label and pads
\* carried over
C8_Witness ==
    /\ pc = "done"
    /\ err = "TooManyInputs"
    /\ filter.nb_inputs >= 1
    /\ Len(parsed_inputs) = 1
    /\ Len(curr_inputs) = 2
    /\ index = 1

\* the trailing labels of the filter being parsed handled so far
OutLabelsHere ==
    Count(labels, LAMBDA e : e.dir = "out" /\ e.filter = index)

\* the next trailing label is complete: a ']' follows its '['
LabelAtCursor ==
    /\ peek(text, ptr) = Some("[")
    /\ \E i \in (ptr + 2)..Len(text) : text[i] = "]"

\* C9: a trailing [label] fails with TooFewOutputs exactly when no current output
\* pad is left, which is when as many labels as the filter has output pads were
\* attached before it; the failing label changes no pool and no link.
C9_TooFewOutputsExactly ==
    [][(pc = "outputs" /\ LabelAtCursor) =>
          /\ (pc' = "done" /\ result' = "Err" /\ err' = "TooFewOutputs")
                 <=> curr_inputs = <<>>
          /\ curr_inputs = <<>> <=> OutLabelsHere = filter.nb_outputs
          /\ Len(curr_inputs) = filter.nb_outputs - OutLabelsHere
          /\ err' = "TooFewOutputs" =>
                 UNCHANGED <<links, curr_inputs, open_inputs, open_outputs>>]_vars

\* TooFewOutputs at the third label of a filter with two output pads
C9_Witness ==
    /\ pc = "done"
    /\ err = "TooFewOutputs"
    /\ OutLabelsHere = 2
    /\ filter.nb_outputs = 2

GivenArgs ==
    LET e == ScanUntil(text, ptr, NameEnd)
    IN  IF e < Len(text) /\ text[e + 1] = "="
        THEN trim(SubSeq(text, e + 2, ScanUntil(text, e + 1, OptsEnd)))
        ELSE <<>>

\* s has the substring flags
HasFlags(s) ==
    \E i \in 1..Len(s) :
        /\ i + 4 <= Len(s)
        /\ <<s[i], s[i + 1], s[i + 2], s[i + 3], s[i + 4]>> = B_flags

\* C11: create_filter changes the argument text only for a filter named scale when
\* scale_sws_opts is set and the given args are empty or do not contain flags:
\* empty args become the inherited text, other args become <args>:<inherited text>;
\* in every other case the stored args are the given args.
C11_ScaleInheritsFlags ==
    [][(pc = "filter" /\ pc' = "link") =>
          IF /\ filter'.filt_name = B_scale
             /\ scale_sws_opts # None
             /\ (GivenArgs = <<>> \/ ~HasFlags(GivenArgs))
          THEN /\ GivenArgs = <<>> => filter'.args = scale_sws_opts[1]
               /\ GivenArgs # <<>> =>
                      filter'.args = GivenArgs \o <<":">> \o scale_sws_opts[1]
          ELSE filter'.args = GivenArgs]_vars

\* a scale filter with args of its own has inherited the flags of the directive
C11_Witness ==
    /\ pc = "link"
    /\ filter.filt_name = B_scale
    /\ filter.args = <<"w", ":">> \o B_flags \o <<"=", "x">>

\* the offset of the first ';' at or after offset p of the text, or Len(text)
FirstSemicolon(p) ==
    LET semis == {i \in (p + 1)..Len(text) : text[i] = ";"}
    IN  IF semis = {} THEN Len(text)
        ELSE (CHOOSE i \in semis : \A j \in semis : i <= j) - 1

\* the text after the leading whitespace starts with the 10 bytes sws_flags=
StartsWithSwsFlags ==
    LET p == skip_ws(text, 0)
    IN  /\ p + 10 <= Len(text)
        /\ [i \in 1..10 |-> text[p + i]] = B_sws_flags

\* C12: when the remaining text starts with sws_flags= and a ';' follows,
\* scale_sws_opts becomes the text from flags= up to the first ';' (sws_ dropped,
\* flags= kept) and the cursor is left just after that ';'; when the text does not
\* start with sws_flags=, parse_sws_flags succeeds and leaves scale_sws_opts and
\* the cursor as they were.
C12_SwsFlagsDirective ==
    [][pc = "start" =>
          LET p == skip_ws(text, 0)
              s == FirstSemicolon(p)
          IN  /\ (StartsWithSwsFlags /\ s < Len(text)) =>
                    /\ scale_sws_opts' = Some([i \in 1..(s - p - 4) |-> text[p + 4 + i]])
                    /\ ptr' = s + 1
                    /\ pc' = "spec"
              /\ ~StartsWithSwsFlags =>
                    /\ scale_sws_opts' = scale_sws_opts
                    /\ ptr' = p
                    /\ pc' = "spec"]_vars

\* the directive sws_flags=; after whitespace has stored flags= and nothing more
C12_Witness ==
    /\ pc = "spec"
    /\ scale_sws_opts = Some(B_flags \o <<"=">>)
    /\ ptr = 12
    /\ text[1] = " "
    /\ Len(text) > ptr

\* the names of the [label] tokens that named pad number p of filter f on side dir:
\* the p-th leading label ("in") or the label attached to output pad p ("out")
LabelsOfPad(dir, f, p) ==
    {labels[k].name : k \in {j \in DOMAIN labels :
         labels[j].dir = dir /\ labels[j].filter = f /\ labels[j].pos = p}}

\* the entry io of a pool carries the label of the token that named its pad, and
\* no label when no token named it
LabelledAsNamed(dir, io) ==
    /\ io.filter_ctx # None
    /\ IF io.name = None
       THEN LabelsOfPad(dir, io.filter_ctx[1], io.pad_idx) = {}
       ELSE LabelsOfPad(dir, io.filter_ctx[1], io.pad_idx) = {io.name[1]}

\* C13 as claimed: in every reachable state of a parse, every entry of the open
\* inputs and every entry of the open outputs carries a label (its name is not None).
C13_Original_PoolEntriesLabelled ==
    /\ \A i \in DOMAIN open_inputs : open_inputs[i].name # None
    /\ \A i \in DOMAIN open_outputs : open_outputs[i].name # None

\* C13 as amended: in every reachable state of a parse, an entry of the open inputs
\* or of the open outputs carries a label exactly when a [label] token named its
\* pad, and then it carries that label; the entries made for input pads that no
\* current input covers and the unclaimed output pads flushed at a ';' or at the
\* end of the input are in the pools without a label.
C13_PoolEntriesLabelledAsNamed ==
    /\ \A i \in DOMAIN open_inputs : LabelledAsNamed("in", open_inputs[i])
    /\ \A i \in DOMAIN open_outputs : LabelledAsNamed("out", open_outputs[i])

\* both pools hold an entry with a label and an entry without one
C13_Witness ==
    /\ ParsedAll
    /\ \E i \in DOMAIN open_inputs : open_inputs[i].name # None
    /\ \E i \in DOMAIN open_inputs : open_inputs[i].name = None
    /\ \E i \in DOMAIN open_outputs : open_outputs[i].name # None
    /\ \E i \in DOMAIN open_outputs : open_outputs[i].name = None

\* the name of the complete [label] token at the cursor
CursorLabel ==
    LET close == {i \in (ptr + 2)..Len(text) : text[i] = "]"}
        c == CHOOSE i \in close : \A j \in close : i <= j
    IN  [i \in 1..(c - ptr - 2) |-> text[ptr + 1 + i]]

\* some entry of the open inputs is labelled n
Awaited(n) == \E i \in DOMAIN open_inputs : open_inputs[i].name = Some(n)

\* the output pads from pad number j on of the filter being parsed, in pad order
PadsFrom(j) ==
    [i \in 1..(filter.nb_outputs - j) |-> FilterInOut(None, j + i - 1, Some(index))]

\* C14: trailing labels are assigned to output pads positionally: the j-th trailing
\* label (0-based) of a filter f is attached to output pad j of f; a label that
\* matches no waiting open input is pushed onto the open outputs as (label, f, j),
\* in label order; the pads left over stay in the current list in pad order.
C14_TrailingLabelsPositional ==
    [][/\ pc \in {"outputs", "dispatch"} => curr_inputs = PadsFrom(OutLabelsHere)
       /\ (pc = "outputs" /\ LabelAtCursor /\ OutLabelsHere < filter.nb_outputs) =>
             /\ labels' = Append(labels, [dir |-> "out", chain |-> chain,
                                          name |-> CursorLabel, filter |-> index,
                                          pos |-> OutLabelsHere])
             /\ curr_inputs' = PadsFrom(OutLabelsHere + 1)
             /\ ~Awaited(CursorLabel) =>
                    open_outputs' = Append(open_outputs,
                        FilterInOut(Some(CursorLabel), OutLabelsHere, Some(index)))]_vars

\* the second filter has two output pads and one trailing label: pad 0 is in the
\* open outputs with the label and pad 1 is left in the current list
C14_Witness ==
    /\ pc = "dispatch"
    /\ index = 1
    /\ filter.nb_outputs = 2
    /\ curr_inputs = <<FilterInOut(None, 1, Some(1))>>
    /\ open_outputs # <<>>
    /\ open_outputs[Len(open_outputs)] = FilterInOut(Some(<<"b">>), 0, Some(1))

RECURSIVE Ascending(_)
\* the numbers of the finite set S as a sequence, smallest first
Ascending(S) ==
    IF S = {} THEN <<>>
    ELSE LET m == CHOOSE x \in S : \A y \in S : x <= y
         IN  <<m>> \o Ascending(S \ {m})

\* the input pads of the filter being linked that a current input covers, those
\* of them whose current input is bound to an output pad, and the others
CoveredPads == {p \in 0..(filter.nb_inputs - 1) : p < Len(curr_inputs)}
BoundPads == {p \in CoveredPads : curr_inputs[p + 1].filter_ctx # None}
OpenPads == (0..(filter.nb_inputs - 1)) \ BoundPads

\* the link into input pad p from the output pad its current input is bound to
LinkIntoPad(p) ==
    FilterLink(curr_inputs[p + 1].filter_ctx[1], curr_inputs[p + 1].pad_idx, index, p)

\* the open input of input pad p: with the label of its current input when it has
\* one, without a label when no current input covers it
OpenInputOfPad(p) ==
    FilterInOut(IF p \in CoveredPads THEN curr_inputs[p + 1].name ELSE None,
                p, Some(index))

\* C15: when a filter f has more input pads than current inputs, the parse does
\* not fail: each input pad p that receives a bound current input yields a link
\* into (f,p), each pad that receives an unbound named input yields the open input
\* (that label, f, p), each pad left uncovered yields an open input without a
\* label owned by (f,p), and the open inputs are appended in increasing pad order.
C15_UncoveredPadsBecomeOpenInputs ==
    [][(pc = "link" /\ Len(curr_inputs) < filter.nb_inputs) =>
          /\ pc' = "outputs"
          /\ result' = "none"
          /\ links' = links \o [i \in 1..Cardinality(BoundPads) |->
                                    LinkIntoPad(Ascending(BoundPads)[i])]
          /\ open_inputs' = open_inputs \o [i \in 1..Cardinality(OpenPads) |->
                                    OpenInputOfPad(Ascending(OpenPads)[i])]]_vars

\* a filter with two input pads whose first pad was fed by a bound labelled input
\* and whose second pad, left uncovered, became an open input without a label
C15_Witness ==
    /\ pc = "outputs"
    /\ filter.nb_inputs = 2
    /\ Len(parsed_inputs) = 1
    /\ parsed_inputs[1].filter_ctx # None
    /\ links # <<>>
    /\ links[Len(links)].to_filter = index
    /\ links[Len(links)].to_pad_idx = 0
    /\ open_inputs # <<>>
    /\ open_inputs[Len(open_inputs)] = FilterInOut(None, 1, Some(index))

\* the position in the open inputs of the first entry labelled n
FirstAwaiting(n) ==
    CHOOSE i \in DOMAIN open_inputs :
        /\ open_inputs[i].name = Some(n)
        /\ \A j \in 1..(i - 1) : open_inputs[j].name # Some(n)

\* C16: when a trailing label L of filter f is attached to output pad (f,q) and the
\* open inputs hold an entry labelled L owned by (g,p) (the first such entry),
\* parse_outputs removes that entry, appends exactly one link (f,q) -> (g,p) and
\* leaves the open outputs as they are; when no open input is labelled L, no link
\* is added and (L,f,q) is appended to the open outputs.  Every open input has an
\* owner, so the link always has a destination.
C16_ForwardReferenceResolved ==
    [][/\ \A i \in DOMAIN open_inputs : open_inputs[i].filter_ctx # None
       /\ (pc = "outputs" /\ LabelAtCursor /\ curr_inputs # <<>>) =>
             LET q == curr_inputs[1].pad_idx
             IN  IF Awaited(CursorLabel)
                 THEN LET k == FirstAwaiting(CursorLabel)
                      IN  /\ open_inputs' = [i \in 1..(Len(open_inputs) - 1) |->
                                 IF i < k THEN open_inputs[i] ELSE open_inputs[i + 1]]
                          /\ links' = Append(links,
                                 FilterLink(index, q, open_inputs[k].filter_ctx[1],
                                            open_inputs[k].pad_idx))
                          /\ open_outputs' = open_outputs
                          /\ result' = "none"
                 ELSE /\ links' = links
                      /\ open_inputs' = open_inputs
                      /\ open_outputs' = Append(open_outputs,
                             FilterInOut(Some(CursorLabel), q, Some(index)))]_vars

\* a trailing label of a later chain has resolved the open input of the first
\* filter, while another open input is still waiting
C16_Witness ==
    /\ pc = "outputs"
    /\ chain >= 1
    /\ links # <<>>
    /\ links[Len(links)].from_filter = index
    /\ links[Len(links)].to_filter = 0
    /\ open_inputs # <<>>
    /\ labels[Len(labels)].dir = "out"

\* the name of the spec at the cursor as parse_filter hands it to create_filter:
\* the text up to the first of = , ; [ trimmed
GivenName == trim(peek_until_end(text, ptr, NameEnd))

\* the positions of the '@' bytes of the given name
AtsOfName == {i \in 1..Len(GivenName) : GivenName[i] = "@"}

\* the given name has an '@' and its first '@' is not its last byte
NameHasInstance ==
    /\ AtsOfName # {}
    /\ \E i \in AtsOfName : i < Len(GivenName) /\ \A j \in AtsOfName : i <= j

\* the given name up to its first '@'
BeforeFirstAt ==
    [i \in 1..((CHOOSE a \in AtsOfName : \A j \in AtsOfName : a <= j) - 1) |-> GivenName[i]]

\* the decimal digit of an index below ten
Digit(n) ==
    CASE n = 0 -> "0" [] n = 1 -> "1" [] n = 2 -> "2" [] n = 3 -> "3" [] n = 4 -> "4"
      [] n = 5 -> "5" [] n = 6 -> "6" [] n = 7 -> "7" [] n = 8 -> "8" [] n = 9 -> "9"

\* C17: when the name contains '@' and the first '@' is not its last byte, the
\* filter name is the text before the first '@' and the instance name is the whole
\* name; otherwise the filter name is the whole name and the instance name is
\* Parsed_<name>_<index>.  The filter name is the name the registry is asked for.
C17_InstanceNaming ==
    [][pc = "filter" =>
          IF NameHasInstance
          THEN /\ pc' = "link" <=> BeforeFirstAt \in KnownFilters
               /\ pc' = "link" =>
                      /\ filter'.filt_name = BeforeFirstAt
                      /\ filter'.inst_name = GivenName
          ELSE /\ pc' = "link" <=> GivenName \in KnownFilters
               /\ pc' = "link" =>
                      /\ filter'.filt_name = GivenName
                      /\ filter'.inst_name =
                             B_Parsed \o GivenName \o <<"_", Digit(index)>>]_vars

\* a filter was given an instance name with two '@': its filter name ends before
\* the first '@' and its instance name is the whole name
C17_Witness ==
    /\ pc = "link"
    /\ filter.filt_name = B_null
    /\ filter.inst_name = B_null \o <<"@", "x", "@">>

\* the entries without a label of a pool, in pool order
Unlabelled(pool) == SelectSeq(pool, LAMBDA io : io.name = None)

\* the byte that Dispatch finds after the whitespace at the cursor, if any
NextByte == peek(text, skip_ws(text, ptr))

\* C18: at every ';' and at the end of the input all still-unclaimed current output
\* pads are moved, without a label and in pad order, to the end of the open
\* outputs, and the current list becomes empty; these entries are never removed by
\* a later [label] input match, so all of them are in the final open outputs.
C18_UnclaimedOutputsFlushed ==
    [][/\ (pc = "dispatch" /\ NextByte = Some(";")) \/ pc = "serialize" =>
             /\ curr_inputs = PadsFrom(OutLabelsHere)
             /\ open_outputs' = open_outputs \o curr_inputs
             /\ curr_inputs' = <<>>
       /\ LET before == Unlabelled(open_outputs)
              after == Unlabelled(open_outputs')
          IN  /\ Len(before) <= Len(after)
              /\ before = [i \in 1..Len(before) |-> after[i]]]_vars

\* a finished parse of two chains: the first chain left an unclaimed pad at its
\* ';', the second chain matched a label of the first, and both unlabelled pads
\* are in the final open outputs
C18_Witness ==
    /\ ParsedAll
    /\ chain >= 1
    /\ \E k \in DOMAIN labels : labels[k].dir = "in" /\ labels[k].chain >= 1
    /\ links # <<>>
    /\ Len(Unlabelled(open_outputs)) >= 2
    /\ open_outputs[1].name = None
    /\ open_outputs[1].filter_ctx = Some(0)

\* a step of the parse has reported an error: the call failed, or create_filter
\* reported that avfilter_init_str rejected the arguments of a filter
ErrorReported == err # "none" \/ rejected # {}

\* C19 as claimed: a parse fails as a whole on its first error: once a step has
\* reported an error the call is over, with no further byte consumed and no further
\* filter, link or pool entry created, and none of the result is emitted; the
\* result is emitted only when the whole text was parsed.
C19_FailsOnFirstError ==
    [][/\ ErrorReported =>
             /\ pc = "done"
             /\ UNCHANGED <<ptr, filters, links, open_inputs, open_outputs, printed>>
       /\ (ErrorReported /\ result # "Panic") => printed = <<>>
       /\ printed' # <<>> => skip_ws(text, ptr') = Len(text)]_vars

\* the leading labels of the filter being parsed, in textual order
LeadingLabels ==
    LET ks == {k \in DOMAIN labels : labels[k].dir = "in" /\ labels[k].filter = index}
    IN  [i \in 1..Cardinality(ks) |-> labels[Ascending(ks)[i]]]

\* C20: parse_inputs puts the references of the leading [label] tokens, in textual
\* order, in front of the pads already in the current list, so the i-th leading
\* label feeds input pad i of the new filter and the pads carried over feed the
\* pads after the named ones; it consumes only the leading run of labels (with the
\* whitespace after each) and stops at the first byte that is not '['.
C20_LeadingLabelsFirst ==
    [][/\ (pc = "inputs" /\ LabelAtCursor) =>
             /\ Len(parsed_inputs') = Len(parsed_inputs) + 1
             /\ parsed_inputs'[Len(parsed_inputs')].name = Some(CursorLabel)
             /\ labels'[Len(labels')].pos = Len(parsed_inputs)
             /\ curr_inputs' = curr_inputs
             /\ ptr' = skip_ws(text, ptr + Len(CursorLabel) + 2)
       /\ (pc = "inputs" /\ pc' = "filter") =>
             /\ peek(text, ptr) # Some("[")
             /\ ptr' = ptr
             /\ Len(parsed_inputs) = Len(LeadingLabels)
             /\ Len(curr_inputs') = Len(parsed_inputs) + Len(curr_inputs)
             /\ \A i \in 1..Len(parsed_inputs) :
                    /\ curr_inputs'[i] = parsed_inputs[i]
                    /\ curr_inputs'[i].name = Some(LeadingLabels[i].name)
             /\ \A i \in 1..Len(curr_inputs) :
                    curr_inputs'[Len(parsed_inputs) + i] = curr_inputs[i]
       /\ (pc = "link" /\ pc' = "outputs") =>
             \A i \in 1..Len(curr_inputs) :
                 IF curr_inputs[i].filter_ctx # None
                 THEN \E k \in (Len(links) + 1)..Len(links') : links'[k] =
                          FilterLink(curr_inputs[i].filter_ctx[1], curr_inputs[i].pad_idx,
                                     index, i - 1)
                 ELSE \E k \in (Len(open_inputs) + 1)..Len(open_inputs') :
                          open_inputs'[k] =
                              FilterInOut(curr_inputs[i].name, i - 1, Some(index))]_vars

\* a filter with two input pads after a ',' and one leading label: the label
\* became the open input of pad 0 and the pad carried over is linked to pad 1
C20_Witness ==
    /\ pc = "outputs"
    /\ index >= 1
    /\ filter.nb_inputs = 2
    /\ Len(parsed_inputs) = 1
    /\ open_inputs # <<>>
    /\ open_inputs[Len(open_inputs)] = FilterInOut(parsed_inputs[1].name, 0, Some(index))
    /\ links # <<>>
    /\ links[Len(links)] = FilterLink(index - 1, 0, index, 1)

\* the positions of the entries of a pool whose label is exactly n
LabelledExactly(pool, n) ==
    {i \in DOMAIN pool : pool[i].name # None /\ pool[i].name[1] = n}

\* the pool without its entry at position k
Without(pool, k) ==
    [i \in 1..(Len(pool) - 1) |-> IF i < k THEN pool[i] ELSE pool[i + 1]]

\* pool p is the beginning of pool q
IsPrefix(p, q) == Len(p) <= Len(q) /\ \A i \in DOMAIN p : p[i] = q[i]

\* C21: label matching is exact equality and takes the earliest-inserted match:
\* when several entries of the open outputs (of the open inputs) carry the label
\* named by a leading (a trailing) label, exactly the first of them is removed and
\* used and the others stay in the pool in their order; entries of the open outputs
\* leave the pool in no other way, so two outputs left open under the same label
\* are both in the final open outputs.
C21_FirstExactMatch ==
    [][/\ (pc = "inputs" /\ LabelAtCursor) =>
             LET hits == LabelledExactly(open_outputs, CursorLabel)
             IN  IF hits = {}
                 THEN /\ open_outputs' = open_outputs
                      /\ parsed_inputs' = Append(parsed_inputs,
                             FilterInOut(Some(CursorLabel), pad, None))
                 ELSE LET k == CHOOSE i \in hits : \A j \in hits : i <= j
                      IN  /\ open_outputs' = Without(open_outputs, k)
                          /\ parsed_inputs' = Append(parsed_inputs, open_outputs[k])
       /\ (pc = "outputs" /\ LabelAtCursor /\ curr_inputs # <<>>) =>
             LET hits == LabelledExactly(open_inputs, CursorLabel)
             IN  IF hits = {}
                 THEN open_inputs' = open_inputs
                 ELSE LET k == CHOOSE i \in hits : \A j \in hits : i <= j
                      IN  /\ open_inputs' = Without(open_inputs, k)
                          /\ links'[Len(links')].to_filter = open_inputs[k].filter_ctx[1]
                          /\ links'[Len(links')].to_pad_idx = open_inputs[k].pad_idx
       /\ pc # "inputs" => IsPrefix(open_outputs, open_outputs')
       /\ pc # "outputs" => IsPrefix(open_inputs, open_inputs')]_vars

\* a finished parse where a leading label found two open outputs with its label:
\* the first was used for a link and the second is in the final open outputs
C21_Witness ==
    /\ ParsedAll
    /\ \E k \in DOMAIN labels : labels[k].dir = "in" /\ labels[k].name = <<"a">>
    /\ \E l \in DOMAIN links : links[l].from_filter = 0 /\ links[l].from_pad_idx = 0
    /\ open_outputs # <<>>
    /\ open_outputs[1] = FilterInOut(Some(<<"a">>), 1, Some(0))

\* every reference of the list has an owner
AllOwned(list) == \A i \in DOMAIN list : list[i].filter_ctx # None

\* C22: in every reachable state every entry of the open inputs and of the open
\* outputs is bound to a filter, so the unwraps in parse_outputs and in the
\* serialization of the open pads never fail; a reference with no owner is in the
\* current list only between parse_inputs and link_filter_inouts of one filter spec.
C22_PoolEntriesOwned ==
    /\ AllOwned(open_inputs)
    /\ AllOwned(open_outputs)
    /\ err # "UnwrapNone"
    /\ (result = "none" /\ pc \notin {"filter", "link"}) => AllOwned(curr_inputs)

\* a reference without an owner was in the current list of the second filter and
\* is now an open input that the filter owns
C22_Witness ==
    /\ pc = "outputs"
    /\ index = 1
    /\ parsed_inputs # <<>>
    /\ parsed_inputs[1].filter_ctx = None
    /\ open_inputs # <<>>
    /\ open_inputs[Len(open_inputs)] = FilterInOut(parsed_inputs[1].name, 0, Some(1))
    /\ open_outputs # <<>>

\* the offset of the first byte of the text at or after offset from that is in the
\* set S, or the length of the text when there is none
FirstOf(S, from) ==
    LET hits == {i \in (from + 1)..Len(text) : text[i] \in S}
    IN  IF hits = {} THEN Len(text)
        ELSE (CHOOSE i \in hits : \A j \in hits : i <= j) - 1

\* the bytes of the text from offset a up to, not including, offset b
Slice(a, b) == [i \in 1..(b - a) |-> text[a + i]]

RECURSIVE DropLeading(_)
DropLeading(s) ==
    IF s # <<>> /\ Head(s) \in {" ", "\t", "\n"} THEN DropLeading(Tail(s)) ELSE s

RECURSIVE DropTrailing(_)
DropTrailing(s) ==
    IF s # <<>> /\ s[Len(s)] \in {" ", "\t", "\n"}
    THEN DropTrailing([i \in 1..(Len(s) - 1) |-> s[i]])
    ELSE s

\* s without its leading and trailing spaces, tabs and newlines
Strip(s) == DropTrailing(DropLeading(s))

\* a call of the scanner (op) was just made
Called(op) == last'.op = op

\* C23: parse_filter reads the filter name up to the first of = , ; [ or the end
\* of the input and, only when the next byte is '=', the args up to the first of
\* [ ] , ; or the end of the input; it strips leading and trailing space, tab and
\* newline from both, leaves the cursor on the delimiter that ended the spec, and
\* does not consume the trailing labels.
C23_FilterSpecLexing ==
    [][Called("parse_filter") =>
          LET e1 == FirstOf({"=", ",", ";", "["}, ptr)
              hasArgs == e1 < Len(text) /\ text[e1 + 1] = "="
              e2 == FirstOf({"[", "]", ",", ";"}, e1 + 1)
              name == Strip(Slice(ptr, e1))
              args == IF hasArgs THEN Strip(Slice(e1 + 1, e2)) ELSE <<>>
          IN  /\ ptr' = IF hasArgs THEN e2 ELSE e1
              /\ ptr' <= FirstOf({"["}, ptr)
              /\ ptr' < Len(text) => text[ptr' + 1] \in {"[", "]", ",", ";"}
              /\ last'.ret # None <=> name \in KnownFilters
              /\ last'.ret # None =>
                     /\ last'.ret[1].filt_name = name
                     /\ last'.ret[1].inst_name = B_Parsed \o name \o <<"_", "0">>
                     /\ last'.ret[1].args = args]_vars

\* parse_filter has read a name and args with blanks around them, and has left the
\* cursor on the ']' that ended the args
C23_Witness ==
    /\ last.op = "parse_filter"
    /\ last.ret # None
    /\ last.ret[1].filt_name = B_null
    /\ last.ret[1].args = <<"x">>
    /\ text[1] = "n"
    /\ ptr = 8
    /\ ptr < Len(text)
    /\ text[ptr + 1] = "]"

\* C24: peek_until(pred) returns the bytes from the cursor up to, not including,
\* the first byte satisfying pred, and None when no remaining byte satisfies pred;
\* peek_until_end(pred) returns the same slice when there is such a byte and the
\* whole remainder (possibly empty) when there is none; the slice returned never
\* contains a byte satisfying pred.
C24_ScannerSlicing ==
    [][/\ Called("peek_until") =>
             LET f == last'.arg
                 found == \E i \in (ptr + 1)..Len(text) : text[i] \in f
             IN  /\ found => last'.ret = Some(Slice(ptr, FirstOf(f, ptr)))
                 /\ ~found => last'.ret = None
                 /\ last'.ret # None =>
                        \A i \in DOMAIN last'.ret[1] : last'.ret[1][i] \notin f
       /\ Called("peek_until_end") =>
             LET f == last'.arg
                 found == \E i \in (ptr + 1)..Len(text) : text[i] \in f
             IN  /\ found => last'.ret = Slice(ptr, FirstOf(f, ptr))
                 /\ ~found => last'.ret = Slice(ptr, Len(text))
                 /\ \A i \in DOMAIN last'.ret : last'.ret[i] \notin f]_vars

\* peek_until found no ';' in a remainder that is not empty
C24_Witness ==
    /\ last.op = "peek_until"
    /\ last.arg = {";"}
    /\ last.ret = None
    /\ ptr > 0
    /\ ptr < Len(text)
    /\ \E i \in 1..ptr : text[i] = ";"

\* C25: the cursor never moves backwards and never passes the end of the buffer:
\* skip(n) moves it by n bytes when at least n remain and otherwise exactly to the
\* end, get and skip_ws stop at the end, and after any sequence of scanner and
\* parser operations 0 <= cursor <= length holds.
C25_CursorWithinBuffer ==
    [][/\ 0 <= ptr /\ ptr <= ptr' /\ ptr' <= Len(text)
       /\ Called("skip") =>
             ptr' = IF Len(text) - ptr >= last'.arg THEN ptr + last'.arg ELSE Len(text)
       /\ Called("get") => ptr' = IF ptr = Len(text) THEN ptr ELSE ptr + 1
       /\ Called("skip_ws") =>
             /\ \A i \in (ptr + 1)..ptr' : text[i] \in {" ", "\n", "\r", "\t"}
             /\ ptr' < Len(text) => text[ptr' + 1] \notin {" ", "\n", "\r", "\t"}]_vars

\* skip was called with more bytes than remained and has left the cursor at the end
C25_Witness ==
    /\ last.op = "skip"
    /\ last.arg = 3
    /\ ptr = Len(text)
    /\ Len(text) = 2

\* the calls that look ahead
LookaheadOps == {"peek", "peek_len", "peek_until", "peek_until_end", "remaining"}

\* C26: peek, peek_len, peek_until, peek_until_end and remaining leave the cursor
\* unchanged, so calling any of them twice in a row returns the same result; the
\* cursor changes only through get, skip and skip_ws (parse_filter moves it through
\* skip), and the buffer is never modified.
C26_LookaheadKeepsCursor ==
    [][/\ text' = text
       /\ last'.op \in LookaheadOps => ptr' = ptr
       /\ (last'.op \in LookaheadOps /\ last.op = last'.op /\ last.arg = last'.arg) =>
             last'.ret = last.ret
       /\ ptr' # ptr => last'.op \in {"get", "skip", "skip_ws", "parse_filter"}]_vars

\* peek has returned a byte in the middle of the text
C26_Witness ==
    /\ last.op = "peek"
    /\ last.ret = Some("=")
    /\ ptr > 0
    /\ text[ptr + 1] = "="

\* C27: avfilter_graph_parse2 terminates on every finite input text: every
\* iteration of the filter-spec loop either ends the parse (error or end of input)
\* or consumes at least the one separator byte, and every iteration of the label
\* loops of parse_inputs and parse_outputs either ends the loop or consumes at
\* least the two bracket bytes.
C27_ParseTerminates ==
    /\ <>(pc = "done")
    /\ [][/\ pc = "dispatch" =>
                \/ pc' \in {"serialize", "done"}
                \/ pc' = "spec" /\ ptr' >= ptr + 1 /\ index' = index + 1
          /\ pc = "inputs" =>
                \/ pc' \in {"filter", "done"}
                \/ pc' = "inputs" /\ ptr' >= ptr + 2
          /\ pc = "outputs" =>
                \/ pc' \in {"dispatch", "done"}
                \/ pc' = "outputs" /\ ptr' >= ptr + 2
          /\ pc \in {"spec", "filter", "link"} => ptr' >= ptr /\ index' = index]_vars

\* a parse of two filter specs has returned with the whole text consumed
C27_Witness ==
    /\ pc = "done"
    /\ result = "Ok"
    /\ index = 1
    /\ \E i \in 1..Len(text) : text[i] \in {",", ";"}
    /\ ptr = Len(text)

\* C28 as claimed: whenever the filter-spec loop has finished without error, the
\* final open-inputs list and the final open-outputs list (after the last append of
\* the current list) are both non-empty, and the serialization that follows ends
\* with Ok.
C28_SerializationAlwaysValid ==
    /\ pc = "serialize" =>
           /\ open_inputs # <<>>
           /\ FlushOutputs(open_outputs, curr_inputs) # <<>>
    /\ (pc = "done" /\ printed # <<>>) => result = "Ok"

\* the filter of index i: an element of the filter list or, while its spec is being
\* parsed, the instance not pushed yet
CreatedFilter(i) == IF i < Len(filters) THEN filters[i + 1] ELSE filter

\* the links a step appends
AddedLinks == {links'[k] : k \in (Len(links) + 1)..Len(links')}

\* C29: every link refers to existing pads: its two filters are created already (at
\* most the index of the filter being parsed), its source pad is an output pad of
\* from_filter and its destination pad an input pad of to_filter; a link made while
\* the inputs of a new filter are linked goes from an earlier filter to the new
\* one, and a link made by a trailing label that resolves a waiting open input goes
\* from the new filter to itself or an earlier one.
C29_LinksReferToExistingPads ==
    /\ [](\A k \in DOMAIN links :
            /\ links[k].from_filter \in 0..index
            /\ links[k].to_filter \in 0..index
            /\ links[k].from_pad_idx \in 0..(CreatedFilter(links[k].from_filter).nb_outputs - 1)
            /\ links[k].to_pad_idx \in 0..(CreatedFilter(links[k].to_filter).nb_inputs - 1)
            /\ CreatedFilter(links[k].from_filter).index = links[k].from_filter
            /\ CreatedFilter(links[k].to_filter).index = links[k].to_filter)
    /\ [][/\ IsPrefix(links, links')
          /\ pc = "link" =>
                \A l \in AddedLinks : l.from_filter < l.to_filter /\ l.to_filter = index
          /\ pc = "outputs" =>
                \A l \in AddedLinks : l.from_filter >= l.to_filter /\ l.from_filter = index
          /\ pc \notin {"link", "outputs"} => AddedLinks = {}]_vars

\* a chain of two filters is linked, and a trailing label of the second filter has
\* resolved the waiting input of the first
C29_Witness ==
    /\ Len(links) = 2
    /\ links[1].from_filter < links[1].to_filter
    /\ links[2].from_filter > links[2].to_filter
    /\ pc = "dispatch"

RECURSIVE KeptFrom(_, _)
\* list p is list q with some of its entries removed (nothing is added)
KeptFrom(p, q) ==
    IF p = <<>> THEN TRUE
    ELSE IF q = <<>> THEN FALSE
    ELSE IF Head(p) = Head(q) THEN KeptFrom(Tail(p), Tail(q))
    ELSE KeptFrom(p, Tail(q))

\* list p is the end of list q
IsSuffix(p, q) ==
    Len(p) <= Len(q) /\ p = SubSeq(q, Len(q) - Len(p) + 1, Len(q))

\* a label loop is on a '[' that no ']' follows
UnclosedLabel ==
    /\ pc \in {"inputs", "outputs"}
    /\ peek(text, ptr) = Some("[")
    /\ \A i \in (ptr + 2)..Len(text) : text[i] # "]"

\* C30 as claimed: a '[' that opens a label with no ']' later in the text makes
\* parse_inputs or parse_outputs, and the parse, fail, and the failing call has
\* added nothing to the current list, the pools or the links: each of them holds
\* only what it held when the call was entered.
C30_Original_FailingCallAddsNothing ==
    [][UnclosedLabel =>
          /\ pc' = "done" /\ result' = "Err" /\ err' = "UnterminatedLabel"
          /\ links' = entry.links
          /\ KeptFrom(curr_inputs', entry.curr_inputs)
          /\ KeptFrom(open_inputs', entry.open_inputs)
          /\ KeptFrom(open_outputs', entry.open_outputs)]_vars

\* C30 (amended): a '[' that opens a label with no ']' later in the text makes
\* parse_inputs or parse_outputs, and the parse, fail with UnterminatedLabel; the
\* failing label changes neither the current list, nor the pools, nor the links.
\* A failing parse_inputs has added nothing to them since it was entered (its
\* earlier labels only took entries out of the open outputs); a failing
\* parse_outputs has kept what each of its earlier labels did: one pad taken from
\* the front of the current list and either a link appended (with the awaited
\* open input removed) or a labelled entry appended to the open outputs.
C30_UnterminatedLabelFails ==
    [][UnclosedLabel =>
          /\ pc' = "done" /\ result' = "Err" /\ err' = "UnterminatedLabel"
          /\ UNCHANGED <<links, curr_inputs, open_inputs, open_outputs>>
          /\ pc = "inputs" =>
                /\ entry.call = "parse_inputs"
                /\ links = entry.links
                /\ curr_inputs = entry.curr_inputs
                /\ open_inputs = entry.open_inputs
                /\ KeptFrom(open_outputs, entry.open_outputs)
                /\ Len(entry.open_outputs) - Len(open_outputs) <= Len(parsed_inputs)
          /\ pc = "outputs" =>
                /\ entry.call = "parse_outputs"
                /\ IsPrefix(entry.links, links)
                /\ IsPrefix(entry.open_outputs, open_outputs)
                /\ IsSuffix(curr_inputs, entry.curr_inputs)
                /\ KeptFrom(open_inputs, entry.open_inputs)
                /\ Len(links) - Len(entry.links) = Len(entry.open_inputs) - Len(open_inputs)
                /\ (Len(links) - Len(entry.links))
                       + (Len(open_outputs) - Len(entry.open_outputs))
                   = Len(entry.curr_inputs) - Len(curr_inputs)]_vars

\* parse_outputs has failed on an unclosed label after an earlier trailing label
\* of the same call was added to the open outputs
C30_Witness ==
    /\ pc = "done"
    /\ err = "UnterminatedLabel"
    /\ entry.call = "parse_outputs"
    /\ Len(open_outputs) > Len(entry.open_outputs)

====
